---------------------------- MODULE Spec2Model ----------------------------
(***************************************************************************)
(* machine-uid: get() reads the OS-native machine id.  One implementation  *)
(* of machine_id::get_machine_id is compiled in, selected by target_os.    *)
(*                                                                         *)
(* Text is modelled at character level: a byte string is a sequence of     *)
(* byte values, a Rust String a sequence of Unicode code points.  The byte *)
(* strings the environments hold are drawn from ASCII bytes and the byte   *)
(* 0xFF (never valid in UTF-8), so UTF-8 decoding is the identity on the   *)
(* ASCII bytes and fails (or substitutes U+FFFD) on 0xFF.                  *)
(***************************************************************************)
EXTENDS Integers, Sequences, FiniteSets, TLC

-----------------------------------------------------------------------------
(* Bounds of the model *)

\* longest file content / kenv output / registry value, in bytes or chars
MaxLen == 3
\* longest ioreg output, in pieces of IoregPieces
MaxPieces == 5
\* threads calling get() concurrently
NThreads == 2

-----------------------------------------------------------------------------
(* Characters *)

CH_NL == 10
CH_QUOTE == 34
CH_EQ == 61
\* the other bytes the sources are made of: a letter, a blank, and a byte
\* that no UTF-8 sequence contains (0xFF)
Byte == [a |-> 97, space |-> 32, invalid |-> 255]
\* U+FFFD, what String::from_utf8_lossy puts for an invalid sequence
REPLACEMENT_CHARACTER == 65533

\* char::is_whitespace: the code points with the White_Space property
WHITE_SPACE ==
    (9..13) \cup {32, 133, 160, 5760} \cup (8192..8202)
        \cup {8232, 8233, 8239, 8287, 12288}

is_whitespace(c) == c \in WHITE_SPACE

\* "IOPlatformUUID"
IOPlatformUUID == <<73, 79, 80, 108, 97, 116, 102, 111, 114, 109, 85, 85, 73, 68>>

-----------------------------------------------------------------------------
(* Result<String, Box<dyn Error>> *)

\* err is <<kind, origin>>: io::ErrorKind or the error's kind, and the source
\* (path, command, registry key) that raised it
Ok(s) == [ok |-> TRUE, val |-> s, err |-> <<>>]
Err(kind, origin) == [ok |-> FALSE, val |-> <<>>, err |-> <<kind, origin>>]
\* no call has produced a value yet
NoResult == [ok |-> FALSE, val |-> <<>>, err |-> <<>>]

-----------------------------------------------------------------------------
(* str and String operations of the standard library, as the code uses them *)

RECURSIVE trim_start_matches(_, _)
\* strips the longest prefix of characters in pat
trim_start_matches(s, pat) ==
    IF s # <<>> /\ Head(s) \in pat THEN trim_start_matches(Tail(s), pat) ELSE s

RECURSIVE trim_end_matches(_, _)
\* strips the longest suffix of characters in pat
trim_end_matches(s, pat) ==
    IF s # <<>> /\ s[Len(s)] \in pat
    THEN trim_end_matches(SubSeq(s, 1, Len(s) - 1), pat)
    ELSE s

trim_matches(s, pat) == trim_end_matches(trim_start_matches(s, pat), pat)

\* mutant of trim: trim_start() in its place
trim_start_only(s) == trim_start_matches(s, WHITE_SPACE)

\* str::trim(): trim_matches(char::is_whitespace)
trim(s) == trim_matches(s, WHITE_SPACE)

\* str::contains(pat) for a string pattern
contains(s, pat) ==
    \E i \in 1..(Len(s) - Len(pat) + 1) : SubSeq(s, i, i + Len(pat) - 1) = pat

RECURSIVE split(_, _)
\* str::split(ch): the pieces between the occurrences of ch, in order,
\* empty pieces included
split(s, ch) ==
    IF \E i \in 1..Len(s) : s[i] = ch
    THEN LET i == CHOOSE j \in 1..Len(s) :
                     s[j] = ch /\ \A k \in 1..(j - 1) : s[k] # ch
         IN  <<SubSeq(s, 1, i - 1)>> \o split(SubSeq(s, i + 1, Len(s)), ch)
    ELSE <<s>>

\* mutant of rsplitn2: splitn(2, ch) read from the right, splitting once at
\* the FIRST ch
splitn2(s, ch) ==
    IF \E i \in 1..Len(s) : s[i] = ch
    THEN LET i == CHOOSE j \in 1..Len(s) :
                     s[j] = ch /\ \A k \in 1..(j - 1) : s[k] # ch
         IN  <<SubSeq(s, i + 1, Len(s)), SubSeq(s, 1, i - 1)>>
    ELSE <<s>>

\* str::rsplitn(2, ch).collect(): split once at the LAST ch, the right-hand
\* piece first; the whole string alone when it holds no ch
rsplitn2(s, ch) ==
    IF \E i \in 1..Len(s) : s[i] = ch
    THEN LET i == CHOOSE j \in 1..Len(s) :
                     s[j] = ch /\ \A k \in (j + 1)..Len(s) : s[k] # ch
         IN  <<SubSeq(s, i + 1, Len(s)), SubSeq(s, 1, i - 1)>>
    ELSE <<s>>

\* whether bytes is valid UTF-8 (over ASCII and 0xFF: no 0xFF)
is_utf8(bytes) == \A i \in 1..Len(bytes) : bytes[i] < 128

RECURSIVE from_utf8_lossy(_)
\* String::from_utf8_lossy: valid bytes decoded, each invalid byte replaced
\* by U+FFFD; never fails
from_utf8_lossy(bytes) ==
    IF bytes = <<>> THEN <<>>
    ELSE <<IF Head(bytes) < 128 THEN Head(bytes) ELSE REPLACEMENT_CHARACTER>>
             \o from_utf8_lossy(Tail(bytes))

-----------------------------------------------------------------------------
(* The machine the library runs on *)

TARGET_OS == {"linux", "bsd", "macos", "windows", "illumos"}

DBUS_PATH == "/var/lib/dbus/machine-id"
DBUS_PATH_ETC == "/etc/machine-id"
HOST_ID_PATH == "/etc/hostid"
Paths == {DBUS_PATH, DBUS_PATH_ETC, HOST_ID_PATH}

KEY_READ == "KEY_READ"
KEY_WOW64_64KEY == "KEY_WOW64_64KEY"
\* the registry view a key is opened in: the process's own, or the 64-bit one
RegViews == {"default", "wow64_64"}

VARIABLES
    target_os,      \* cfg(target_os) of the build
    pointer_width,  \* cfg(target_pointer_width) of the build
    fs,             \* path -> file: [open, read, bytes]
    cmd,            \* the helper command (kenv, ioreg): [spawn, stdout]
    reg,            \* registry view -> SOFTWARE\Microsoft\Cryptography
    wow64,          \* what MachineUidIsWow64() returns
    hostid,         \* what gethostid() returns
    pc,             \* thread -> where its call of get() stands
    result,         \* thread -> the Result its call returns
    content,        \* thread -> the local `content` (macOS)
    flag,           \* thread -> the local `flag` (Windows)
    attempts,       \* thread -> the sources this call has read, in order
    dirty,          \* thread -> a source changed while this call ran
    last            \* the Result the latest call returned, NoResult once
                    \* a source has changed since or while it ran

env == <<target_os, pointer_width, fs, cmd, reg, wow64, hostid>>
locals == <<pc, result, content, flag, attempts>>
history == <<dirty, last>>
vars == <<env, locals, history>>

\* the calling threads
Threads == 1..NThreads

(* Files.  open: "ok", or the io::ErrorKind File::open fails with;          *)
(* read: "ok", or the io::ErrorKind reading fails with.                     *)
File(bytes) == [open |-> "ok", read |-> "ok", bytes |-> bytes]
NoFile(kind) == [open |-> kind, read |-> "ok", bytes |-> <<>>]
BadFile(kind) == [open |-> "ok", read |-> kind, bytes |-> <<>>]
Absent == NoFile("NotFound")

(* Commands.  spawn: "ok", or the io::ErrorKind Command::output fails with. *)
Output(bytes) == [spawn |-> "ok", stdout |-> bytes]
NoCommand == [spawn |-> "NotFound", stdout |-> <<>>]

(* Registry keys.  "nokey": the key cannot be opened; "novalue": it has no  *)
(* MachineGuid; "notstring": MachineGuid is not a string; "string".         *)
RegKey(kind, data) == [kind |-> kind, data |-> data]
NoKey == RegKey("nokey", <<>>)

RECURSIVE Strings(_, _)
\* the strings over alphabet of length at most n
Strings(alphabet, n) ==
    IF n = 0 THEN {<<>>}
    ELSE LET shorter == Strings(alphabet, n - 1)
         IN  shorter \cup {<<c>> \o s : c \in alphabet, s \in shorter}

RECURSIVE Concats(_, _)
\* the concatenations of at most n pieces
Concats(pieces, n) ==
    IF n = 0 THEN {<<>>}
    ELSE LET shorter == Concats(pieces, n - 1)
         IN  shorter \cup {p \o s : p \in pieces, s \in shorter}

FileBytes == Strings({Byte.a, Byte.space, CH_NL, Byte.invalid}, MaxLen)
\* "abc123\n" and "def456\n"
Abc123Line == <<97, 98, 99, 49, 50, 51, 10>>
Def456Line == <<100, 101, 102, 52, 53, 54, 10>>
AllFiles ==
    {File(b) : b \in FileBytes \cup {Abc123Line, Def456Line}}
        \cup {NoFile("NotFound"), NoFile("PermissionDenied"), BadFile("Other")}
AllCommands == {Output(b) : b \in FileBytes} \cup {NoCommand}

IoregPieces ==
    {IOPlatformUUID, <<CH_EQ>>, <<CH_QUOTE>>, <<Byte.space>>, <<CH_NL>>, <<Byte.a>>}
\* `    "IOPlatformUUID" = "1234-5678"`
IoregExample ==
    <<32, 32, 32, 32, 34>> \o IOPlatformUUID
        \o <<34, 32, 61, 32, 34, 49, 50, 51, 52, 45, 53, 54, 55, 56, 34>>
IoregBytes ==
    Concats(IoregPieces, MaxPieces)
        \cup {IoregExample, <<Byte.a, CH_NL>> \o IoregExample \o <<CH_NL, Byte.a>>,
              <<Byte.invalid>> \o IOPlatformUUID \o <<CH_EQ, Byte.invalid>>}
AllIoreg == {Output(b) : b \in IoregBytes} \cup {NoCommand}

RegStrings == Strings({Byte.a, Byte.space, CH_NL}, MaxLen)
AllRegKeys ==
    {RegKey("string", s) : s \in RegStrings}
        \cup {NoKey, RegKey("novalue", <<>>), RegKey("notstring", <<>>)}

HostIds == {0, 1, 10, 255, 4096, 2147483647, -1, -2147483647}
WowAnswers == {-1, 0, 1}

(* The few sources the concurrent specification moves between *)
FewFiles == {Absent, File(<<Byte.a, CH_NL>>), File(<<Byte.a, Byte.a>>)}
FewCommands(os) ==
    IF os = "macos"
    THEN {NoCommand, Output(IoregExample),
          Output(IOPlatformUUID \o <<CH_EQ, Byte.a>>)}
    ELSE {NoCommand, Output(<<Byte.a, CH_NL>>), Output(<<Byte.space, Byte.a, Byte.a>>)}
FewRegKeys == {NoKey, RegKey("string", <<Byte.a, CH_NL>>)}
FewHostIds == {0, 255, -1}

\* rich: every source of the bounded sets; otherwise the few above
Files(rich) == IF rich THEN AllFiles ELSE FewFiles
Commands(os, rich) ==
    IF ~rich THEN FewCommands(os)
    ELSE IF os = "macos" THEN AllIoreg ELSE AllCommands

\* the file systems of a target: the paths it never reads are absent
FileSystems(os, rich) ==
    CASE os = "linux" ->
           {[p \in Paths |-> IF p = DBUS_PATH THEN a
                             ELSE IF p = DBUS_PATH_ETC THEN b ELSE Absent] :
               a \in Files(rich), b \in Files(rich)}
      [] os = "bsd" ->
           {[p \in Paths |-> IF p = HOST_ID_PATH THEN a ELSE Absent] :
               a \in Files(rich)}
      [] OTHER -> {[p \in Paths |-> Absent]}
CommandsOf(os, rich) ==
    IF os \in {"bsd", "macos"} THEN Commands(os, rich) ELSE {NoCommand}
Registries(os, rich) ==
    IF os = "windows"
    THEN [RegViews -> IF rich THEN AllRegKeys ELSE FewRegKeys]
    ELSE {[v \in RegViews |-> NoKey]}
WowAnswersOf(os, rich) ==
    IF os = "windows" THEN (IF rich THEN WowAnswers ELSE {0, 1}) ELSE {0}
HostIdsOf(os, rich) ==
    IF os = "illumos" THEN (IF rich THEN HostIds ELSE FewHostIds) ELSE {0}
PointerWidths(os) == IF os = "windows" THEN {32, 64} ELSE {64}

-----------------------------------------------------------------------------
(* The code: what each function returns in the current state *)

\* fn read_file(file_path)
read_file(file_path) ==
    LET f == fs[file_path]
    IN  IF f.open # "ok" THEN Err(f.open, file_path)             \* File::open(..)?
        ELSE IF f.read # "ok" THEN Err(f.read, file_path)        \* read_to_string(..)?
        ELSE IF ~is_utf8(f.bytes) THEN Err("InvalidData", file_path)
        ELSE Ok(trim(from_utf8_lossy(f.bytes)))

\* mutant of read_from_kenv: String::from_utf8(..)? in place of the lossy
\* decoding
read_from_kenv_strict ==
    IF cmd.spawn # "ok" THEN Err(cmd.spawn, "kenv")
    ELSE IF ~is_utf8(cmd.stdout) THEN Err("FromUtf8Error", "kenv")
    ELSE Ok(trim(from_utf8_lossy(cmd.stdout)))

\* fn read_from_kenv()
read_from_kenv ==
    IF cmd.spawn # "ok" THEN Err(cmd.spawn, "kenv")              \* .output()?
    ELSE Ok(trim(from_utf8_lossy(cmd.stdout)))

RECURSIVE extract_id_lines_left(_)
\* mutant of extract_id_lines: k[1], the piece left of the '=', in place of
\* k[0]
extract_id_lines_left(lines) ==
    IF lines = <<>>
    THEN Err("No matching IOPlatformUUID", "extract_id")
    ELSE IF contains(Head(lines), IOPlatformUUID)
         THEN LET k == rsplitn2(Head(lines), CH_EQ)
              IN  IF Len(k) >= 2
                  THEN Ok(trim_matches(k[2], {CH_QUOTE} \cup WHITE_SPACE))
                  ELSE Err("panic", "index out of bounds")
         ELSE extract_id_lines_left(Tail(lines))

RECURSIVE extract_id_lines(_)
\* the loop of extract_id over the lines that are left
extract_id_lines(lines) ==
    IF lines = <<>>
    THEN Err("No matching IOPlatformUUID", "extract_id")
    ELSE IF contains(Head(lines), IOPlatformUUID)
         THEN LET k == rsplitn2(Head(lines), CH_EQ)
              IN  IF Len(k) >= 1
                  THEN Ok(trim_matches(k[1], {CH_QUOTE} \cup WHITE_SPACE))
                  ELSE Err("panic", "index out of bounds")       \* k[0]
         ELSE extract_id_lines(Tail(lines))

\* fn extract_id(content)
extract_id(text) == extract_id_lines(split(text, CH_NL))

\* mutant of wow64_flag: the pointer width is not asked
wow64_flag_any_width ==
    IF wow64 = 1 THEN {KEY_READ, KEY_WOW64_64KEY} ELSE {KEY_READ}

\* the `flag` of the Windows get_machine_id
wow64_flag ==
    IF wow64 = 1 /\ pointer_width = 32
    THEN {KEY_READ, KEY_WOW64_64KEY}
    ELSE {KEY_READ}

\* the view open_subkey_with_flags opens the key in
view_of(flags) == IF KEY_WOW64_64KEY \in flags THEN "wow64_64" ELSE "default"

\* hklm.open_subkey_with_flags("SOFTWARE\\Microsoft\\Cryptography", flags):
\* an error, or Ok with nothing in val (the handle is the view)
open_subkey_with_flags(flags) ==
    IF reg[view_of(flags)].kind = "nokey"
    THEN Err("NotFound", "SOFTWARE\\Microsoft\\Cryptography")
    ELSE Ok(<<>>)

\* crypto.get_value("MachineGuid") on the key opened with flags
get_value(flags) ==
    LET key == reg[view_of(flags)]
    IN  IF KEY_READ \notin flags THEN Err("PermissionDenied", "MachineGuid")
        ELSE IF key.kind = "novalue" THEN Err("NotFound", "MachineGuid")
        ELSE IF key.kind = "notstring" THEN Err("InvalidData", "MachineGuid")
        ELSE Ok(key.data)

C_LONG_NIBBLES == 16

RECURSIVE nibbles(_, _)
\* the k low hexadecimal digits of n in two's complement, high digit first
nibbles(n, k) ==
    IF k = 0 THEN <<>> ELSE nibbles(n \div 16, k - 1) \o <<n % 16>>

hex_digit(d) == IF d < 10 THEN 48 + d ELSE 87 + d

\* format!("{:x}", n) of a c_long: lowercase, no leading zeros, two's
\* complement when negative
format_x(n) ==
    LET ds == nibbles(n, C_LONG_NIBBLES)
        sig == trim_start_matches(ds, {0})
        kept == IF sig = <<>> THEN <<0>> ELSE sig
    IN  [i \in 1..Len(kept) |-> hex_digit(kept[i])]

\* get_machine_id of the target as one function of the sources as they are
\* now: what a call returns when nothing changes while it runs
get_machine_id ==
    CASE target_os = "linux" ->
           LET r == read_file(DBUS_PATH)
           IN  IF r.ok THEN r ELSE read_file(DBUS_PATH_ETC)
      [] target_os = "bsd" ->
           LET r == read_file(HOST_ID_PATH)
           IN  IF r.ok THEN r ELSE read_from_kenv
      [] target_os = "macos" ->
           IF cmd.spawn # "ok" THEN Err(cmd.spawn, "ioreg")
           ELSE extract_id(from_utf8_lossy(cmd.stdout))
      [] target_os = "windows" ->
           LET opened == open_subkey_with_flags(wow64_flag)
               id == get_value(wow64_flag)
           IN  IF ~opened.ok THEN opened
               ELSE IF ~id.ok THEN id ELSE Ok(trim(id.val))
      [] target_os = "illumos" -> Ok(format_x(hostid))

-----------------------------------------------------------------------------
(* Initial states *)

InitEnv(rich) ==
    /\ target_os \in TARGET_OS
    /\ pointer_width \in PointerWidths(target_os)
    /\ fs \in FileSystems(target_os, rich)
    /\ cmd \in CommandsOf(target_os, rich)
    /\ reg \in Registries(target_os, rich)
    /\ wow64 \in WowAnswersOf(target_os, rich)
    /\ hostid \in HostIdsOf(target_os, rich)

InitCalls ==
    /\ pc = [t \in Threads |-> "idle"]
    /\ result = [t \in Threads |-> NoResult]
    /\ content = [t \in Threads |-> <<>>]
    /\ flag = [t \in Threads |-> {}]
    /\ attempts = [t \in Threads |-> <<>>]
    /\ dirty = [t \in Threads |-> FALSE]
    /\ last = NoResult

\* concurrent callers on a machine whose sources may change
Init == InitEnv(FALSE) /\ InitCalls

\* one caller on any machine of the bounded sets
InitCall == InitEnv(TRUE) /\ InitCalls

-----------------------------------------------------------------------------
(* pub use machine_id::get_machine_id as get: a call, step by step *)

\* where get_machine_id of the target starts
Entry(os) ==
    CASE os = "linux" -> "linux_primary"
      [] os = "bsd" -> "bsd_hostid"
      [] os = "macos" -> "macos_ioreg"
      [] os = "windows" -> "windows_flag"
      [] os = "illumos" -> "illumos_hostid"

\* thread t calls get()
Call(t) ==
    /\ pc[t] = "idle"
    /\ pc' = [pc EXCEPT ![t] = Entry(target_os)]
    /\ result' = [result EXCEPT ![t] = NoResult]
    /\ content' = [content EXCEPT ![t] = <<>>]
    /\ flag' = [flag EXCEPT ![t] = {}]
    /\ attempts' = [attempts EXCEPT ![t] = <<>>]
    /\ dirty' = [dirty EXCEPT ![t] = FALSE]
    /\ UNCHANGED <<env, last>>

\* the call of t has read source src and goes on at `next`
Goto(t, next, src) ==
    /\ pc' = [pc EXCEPT ![t] = next]
    /\ attempts' = [attempts EXCEPT ![t] = Append(@, src)]

\* mutant of Finish: the Result goes through a slot all calls share
FinishShared(t, r, src) ==
    /\ Goto(t, "done", src)
    /\ result' = [u \in Threads |-> r]

\* the call of t has read source src and returns r
Finish(t, r, src) ==
    /\ Goto(t, "done", src)
    /\ result' = [result EXCEPT ![t] = r]

\* mutant of LinuxReadPrimary: an id some call obtained before is kept and
\* handed out again
LinuxReadPrimaryCached(t) ==
    /\ pc[t] = "linux_primary"
    /\ LET cached == {u \in Threads : u # t /\ result[u].ok}
           r == read_file(DBUS_PATH)
       IN  IF cached # {}
           THEN Finish(t, result[CHOOSE u \in cached : TRUE], DBUS_PATH)
           ELSE IF r.ok
                THEN Finish(t, r, DBUS_PATH)
                ELSE Goto(t, "linux_fallback", DBUS_PATH) /\ UNCHANGED result
    /\ UNCHANGED <<env, content, flag, history>>

\* mutant of LinuxReadPrimary: an empty id counts as a failed read
LinuxReadPrimaryNonEmpty(t) ==
    /\ pc[t] = "linux_primary"
    /\ LET r == read_file(DBUS_PATH)
       IN  IF r.ok /\ r.val # <<>>
           THEN Finish(t, r, DBUS_PATH)
           ELSE Goto(t, "linux_fallback", DBUS_PATH) /\ UNCHANGED result
    /\ UNCHANGED <<env, content, flag, history>>

\* linux: match read_file(DBUS_PATH)
LinuxReadPrimary(t) ==
    /\ pc[t] = "linux_primary"
    /\ LET r == read_file(DBUS_PATH)
       IN  IF r.ok
           THEN Finish(t, r, DBUS_PATH)
           ELSE Goto(t, "linux_fallback", DBUS_PATH) /\ UNCHANGED result
    /\ UNCHANGED <<env, content, flag, history>>

\* mutant of LinuxReadFallback: DBUS_PATH is read a second time
LinuxRereadPrimary(t) ==
    /\ pc[t] = "linux_fallback"
    /\ Finish(t, read_file(DBUS_PATH), DBUS_PATH_ETC)
    /\ UNCHANGED <<env, content, flag, history>>

\* linux: Err(_) => Ok(read_file(DBUS_PATH_ETC)?)
LinuxReadFallback(t) ==
    /\ pc[t] = "linux_fallback"
    /\ Finish(t, read_file(DBUS_PATH_ETC), DBUS_PATH_ETC)
    /\ UNCHANGED <<env, content, flag, history>>

\* mutant of BsdReadHostId: kenv is asked whatever the file gave
BsdReadHostIdThenKenv(t) ==
    /\ pc[t] = "bsd_hostid"
    /\ Goto(t, "bsd_kenv", HOST_ID_PATH)
    /\ UNCHANGED <<env, result, content, flag, history>>

\* bsd: match read_file(HOST_ID_PATH)
BsdReadHostId(t) ==
    /\ pc[t] = "bsd_hostid"
    /\ LET r == read_file(HOST_ID_PATH)
       IN  IF r.ok
           THEN Finish(t, r, HOST_ID_PATH)
           ELSE Goto(t, "bsd_kenv", HOST_ID_PATH) /\ UNCHANGED result
    /\ UNCHANGED <<env, content, flag, history>>

\* bsd: Err(_) => Ok(read_from_kenv()?)
BsdReadFromKenv(t) ==
    /\ pc[t] = "bsd_kenv"
    /\ Finish(t, read_from_kenv, "kenv")
    /\ UNCHANGED <<env, content, flag, history>>

\* macos: Command::new("ioreg")...output()?, then from_utf8_lossy
MacosIoreg(t) ==
    /\ pc[t] = "macos_ioreg"
    /\ IF cmd.spawn # "ok"
       THEN Finish(t, Err(cmd.spawn, "ioreg"), "ioreg") /\ UNCHANGED content
       ELSE /\ Goto(t, "macos_extract", "ioreg")
            /\ content' = [content EXCEPT ![t] = from_utf8_lossy(cmd.stdout)]
            /\ UNCHANGED result
    /\ UNCHANGED <<env, flag, history>>

\* macos: extract_id(&content)
MacosExtractId(t) ==
    /\ pc[t] = "macos_extract"
    /\ pc' = [pc EXCEPT ![t] = "done"]
    /\ result' = [result EXCEPT ![t] = extract_id(content[t])]
    /\ UNCHANGED <<env, content, flag, attempts, history>>

\* windows: let flag = if MachineUidIsWow64() == 1 && cfg!(..) {..} else {..}
WindowsFlag(t) ==
    /\ pc[t] = "windows_flag"
    /\ pc' = [pc EXCEPT ![t] = "windows_open"]
    /\ flag' = [flag EXCEPT ![t] = wow64_flag]
    /\ UNCHANGED <<env, result, content, attempts, history>>

\* windows: hklm.open_subkey_with_flags(.., flag)?
WindowsOpenSubkey(t) ==
    /\ pc[t] = "windows_open"
    /\ LET r == open_subkey_with_flags(flag[t])
       IN  IF r.ok
           THEN Goto(t, "windows_value", view_of(flag[t])) /\ UNCHANGED result
           ELSE Finish(t, r, view_of(flag[t]))
    /\ UNCHANGED <<env, content, flag, history>>

\* windows: crypto.get_value("MachineGuid")?, then Ok(id.trim().to_string())
WindowsGetValue(t) ==
    /\ pc[t] = "windows_value"
    /\ pc' = [pc EXCEPT ![t] = "done"]
    /\ LET r == get_value(flag[t])
       IN  result' = [result EXCEPT ![t] = IF r.ok THEN Ok(trim(r.val)) ELSE r]
    /\ UNCHANGED <<env, content, flag, attempts, history>>

\* illumos: Ok(format!("{:x}", unsafe { libc::gethostid() }))
IllumosGetHostId(t) ==
    /\ pc[t] = "illumos_hostid"
    /\ Finish(t, Ok(format_x(hostid)), "gethostid")
    /\ UNCHANGED <<env, content, flag, history>>

\* the call of t returns its Result to the caller
Return(t) ==
    /\ pc[t] = "done"
    /\ pc' = [pc EXCEPT ![t] = "idle"]
    /\ last' = IF dirty[t] THEN NoResult ELSE result[t]
    /\ UNCHANGED <<env, result, content, flag, attempts, dirty>>

\* a step of get_machine_id in thread t
Step(t) ==
    \/ LinuxReadPrimary(t)
    \/ LinuxReadFallback(t)
    \/ BsdReadHostId(t)
    \/ BsdReadFromKenv(t)
    \/ MacosIoreg(t)
    \/ MacosExtractId(t)
    \/ WindowsFlag(t)
    \/ WindowsOpenSubkey(t)
    \/ WindowsGetValue(t)
    \/ IllumosGetHostId(t)

\* the machine changes under the library: root rewrites a file, a command
\* answers differently, the registry is edited (not a step of the library)
EnvChange ==
    /\ fs' \in FileSystems(target_os, FALSE)
    /\ cmd' \in CommandsOf(target_os, FALSE)
    /\ reg' \in Registries(target_os, FALSE)
    /\ wow64' \in WowAnswersOf(target_os, FALSE)
    /\ hostid' \in HostIdsOf(target_os, FALSE)
    /\ <<fs', cmd', reg', wow64', hostid'>> # <<fs, cmd, reg, wow64, hostid>>
    /\ dirty' = [t \in Threads |-> pc[t] # "idle"]
    /\ last' = NoResult
    /\ UNCHANGED <<target_os, pointer_width, locals>>

Next ==
    \/ \E t \in Threads : Call(t)
    \/ \E t \in Threads : Step(t)
    \/ \E t \in Threads : Return(t)
    \/ EnvChange

Spec == Init /\ [][Next]_vars

\* one thread, nothing else touching the machine
NextCall ==
    \/ Call(1)
    \/ Step(1)
    \/ Return(1)

SpecCall == InitCall /\ [][NextCall]_vars


-----------------------------------------------------------------------------
(* Vocabulary of the properties *)

\* a file that can be opened and read as text
Readable(f) ==
    f.open = "ok" /\ f.read = "ok" /\ \A i \in 1..Len(f.bytes) : f.bytes[i] # Byte.invalid

Least(S) == CHOOSE x \in S : \A y \in S : x <= y
Greatest(S) == CHOOSE x \in S : \A y \in S : y <= x

\* t is s without its leading and trailing characters of pat
Stripped(t, s, pat) ==
    LET keep == {k \in 1..Len(s) : s[k] \notin pat}
    IN  IF keep = {} THEN t = <<>>
        ELSE t = SubSeq(s, Least(keep), Greatest(keep))

\* s neither starts nor ends with a whitespace character
NoSurroundingSpace(s) ==
    s = <<>> \/ (s[1] \notin WHITE_SPACE /\ s[Len(s)] \notin WHITE_SPACE)

\* bytes as text, each 0xFF shown as U+FFFD
Shown(bytes) ==
    [i \in 1..Len(bytes) |->
        IF bytes[i] = Byte.invalid THEN REPLACEMENT_CHARACTER ELSE bytes[i]]

\* the primary file and the secondary source of the two-source targets
PrimaryPath == IF target_os = "linux" THEN DBUS_PATH ELSE HOST_ID_PATH
SecondaryName == IF target_os = "linux" THEN DBUS_PATH_ETC ELSE "kenv"
TwoSources == target_os \in {"linux", "bsd"}

\* the secondary source yields text / the text it yields, untrimmed
SecondaryYields ==
    IF target_os = "linux" THEN Readable(fs[DBUS_PATH_ETC]) ELSE cmd.spawn = "ok"
SecondaryText ==
    IF target_os = "linux" THEN fs[DBUS_PATH_ETC].bytes ELSE Shown(cmd.stdout)

\* the error the secondary source fails with
SecondaryError ==
    IF target_os = "linux"
    THEN LET f == fs[DBUS_PATH_ETC]
         IN  <<IF f.open # "ok" THEN f.open
               ELSE IF f.read # "ok" THEN f.read ELSE "InvalidData",
               DBUS_PATH_ETC>>
    ELSE <<cmd.spawn, "kenv">>

-----------------------------------------------------------------------------
(* Properties *)

\* C1: on Linux a finished call returns Ok with the primary file's content
\* trimmed when the primary is readable, else Ok with the fallback file's
\* content trimmed when that is readable, else an error.
C1_LinuxPrimaryThenFallback ==
    (target_os = "linux" /\ pc[1] = "done") =>
        LET p == fs[DBUS_PATH]
            f == fs[DBUS_PATH_ETC]
            r == result[1]
        IN  IF Readable(p) THEN r.ok /\ Stripped(r.val, p.bytes, WHITE_SPACE)
            ELSE IF Readable(f) THEN r.ok /\ Stripped(r.val, f.bytes, WHITE_SPACE)
            ELSE ~r.ok

\* C1 happens: the primary is absent, the fallback holds "def456\n", and the
\* call has returned "def456"
C1_Witness ==
    /\ target_os = "linux" /\ pc[1] = "done"
    /\ fs[DBUS_PATH].open = "NotFound"
    /\ fs[DBUS_PATH_ETC] = File(Def456Line)
    /\ result[1] = Ok(<<100, 101, 102, 52, 53, 54>>)

C7_FallbackOnceThenOneOutcome ==
    TwoSources =>
        LET a == attempts[1]
            r == result[1]
        IN  /\ a \in {<<>>, <<PrimaryPath>>, <<PrimaryPath, SecondaryName>>}
            /\ Len(a) = 2 => ~Readable(fs[PrimaryPath])
            /\ pc[1] = "done" =>
                 /\ Len(a) = (IF Readable(fs[PrimaryPath]) THEN 1 ELSE 2)
                 /\ r.ok => /\ r.err = <<>>
                            /\ Stripped(r.val,
                                        IF Len(a) = 1 THEN fs[PrimaryPath].bytes
                                        ELSE SecondaryText, WHITE_SPACE)
                 /\ ~r.ok => r.val = <<>> /\ r.err # <<>>
            /\ pc[1] \notin {"idle", "done"} => r = NoResult

\* C7 happens: a BSD call has read /etc/hostid in vain, then kenv, and
\* returned kenv's text
C7_Witness ==
    /\ target_os = "bsd" /\ pc[1] = "done"
    /\ attempts[1] = <<HOST_ID_PATH, "kenv">>
    /\ fs[HOST_ID_PATH].open = "PermissionDenied"
    /\ result[1].ok /\ result[1].val = <<Byte.a, Byte.space, Byte.a>>

\* C9: on Linux and BSD only the failure of the primary read sends a call to
\* the secondary source: a readable primary, empty or whitespace-only
\* included, is returned (as "" then) and the secondary is never read; when
\* both fail the call returns the secondary's error.
C9_FallbackOnErrorOnly ==
    (TwoSources /\ pc[1] = "done") =>
        LET p == fs[PrimaryPath]
            r == result[1]
        IN  /\ Readable(p) =>
                 /\ attempts[1] = <<PrimaryPath>>
                 /\ r.ok
                 /\ (\A i \in 1..Len(p.bytes) : p.bytes[i] \in WHITE_SPACE)
                        => r = Ok(<<>>)
            /\ (~Readable(p) /\ ~SecondaryYields) =>
                 ~r.ok /\ r.err = SecondaryError

\* C9 happens: the primary holds only whitespace, the fallback an id, and the
\* call has returned "" from the primary alone
C9_Witness ==
    /\ target_os = "linux" /\ pc[1] = "done"
    /\ fs[DBUS_PATH] = File(<<Byte.space, CH_NL>>)
    /\ fs[DBUS_PATH_ETC] = File(Abc123Line)
    /\ attempts[1] = <<DBUS_PATH>>
    /\ result[1] = Ok(<<>>)

\* the lines of the text the extractor was given, and which hold the marker
MarkerLines(text) ==
    LET lines == split(text, CH_NL)
    IN  {i \in 1..Len(lines) : contains(lines[i], IOPlatformUUID)}
FirstMarkerLine(text) == split(text, CH_NL)[Least(MarkerLines(text))]
NotFound == Err("No matching IOPlatformUUID", "extract_id")
QuotesAndSpace == {CH_QUOTE} \cup WHITE_SPACE

\* C3: on macOS a finished call fails when ioreg could not be run; returns
\* the not-found error when no line of the output holds "IOPlatformUUID";
\* and otherwise, when the first such line holds a '=', returns what follows
\* the line's last '=' without its surrounding quotes and whitespace.
C3_MacosFirstMarkerLineLastEq ==
    (target_os = "macos" /\ pc[1] = "done") =>
        IF cmd.spawn # "ok" THEN ~result[1].ok
        ELSE /\ content[1] = Shown(cmd.stdout)
             /\ IF MarkerLines(content[1]) = {} THEN result[1] = NotFound
                ELSE LET line == FirstMarkerLine(content[1])
                         eqs == {j \in 1..Len(line) : line[j] = CH_EQ}
                     IN  eqs # {} =>
                           /\ result[1].ok
                           /\ Stripped(result[1].val,
                                       SubSeq(line, Greatest(eqs) + 1, Len(line)),
                                       QuotesAndSpace)

\* C3 happens: ioreg printed a line before and a line after
\* `    "IOPlatformUUID" = "1234-5678"`, and the call returned "1234-5678"
C3_Witness ==
    /\ target_os = "macos" /\ pc[1] = "done"
    /\ cmd.stdout = <<Byte.a, CH_NL>> \o IoregExample \o <<CH_NL, Byte.a>>
    /\ result[1] = Ok(<<49, 50, 51, 52, 45, 53, 54, 55, 56>>)

\* C10: the macOS extractor ends with Ok or the not-found error, never by
\* indexing out of bounds; its result is the one the first marker line alone
\* gives, whatever follows it; and a first marker line without '=' gives Ok
\* with the whole line less its surrounding quotes and whitespace.
C10_MacosExtractorTotal ==
    (target_os = "macos" /\ pc[1] = "done" /\ cmd.spawn = "ok") =>
        /\ result[1].ok \/ result[1] = NotFound
        /\ MarkerLines(content[1]) # {} =>
             LET line == FirstMarkerLine(content[1])
             IN  /\ result[1] = extract_id(line)
                 /\ (\A j \in 1..Len(line) : line[j] # CH_EQ) =>
                      /\ result[1].ok
                      /\ Stripped(result[1].val, line, QuotesAndSpace)

\* C10 happens: the first marker line has no '=', a later marker line has
\* one, and the call returned the first line itself
C10_Witness ==
    /\ target_os = "macos" /\ pc[1] = "done"
    /\ content[1] = IOPlatformUUID \o <<CH_NL>> \o IOPlatformUUID \o <<CH_EQ, Byte.a>>
    /\ result[1] = Ok(IOPlatformUUID)

C5_WindowsFlagAndValue ==
    (target_os = "windows" /\ pc[1] = "done") =>
        LET wide == wow64 = 1 /\ pointer_width = 32
            key == reg[IF wide THEN "wow64_64" ELSE "default"]
            r == result[1]
        IN  /\ flag[1] = (IF wide THEN {KEY_READ, KEY_WOW64_64KEY} ELSE {KEY_READ})
            /\ key.kind = "string" => r.ok /\ Stripped(r.val, key.data, WHITE_SPACE)
            /\ key.kind # "string" => ~r.ok

\* C5 happens: a 32-bit build under WOW64 whose own view has no key has
\* returned the 64-bit view's MachineGuid, trimmed
C5_Witness ==
    /\ target_os = "windows" /\ pc[1] = "done"
    /\ wow64 = 1 /\ pointer_width = 32
    /\ reg["default"] = NoKey
    /\ reg["wow64_64"] = RegKey("string", <<Byte.space, Byte.a, CH_NL>>)
    /\ flag[1] = {KEY_READ, KEY_WOW64_64KEY}
    /\ result[1] = Ok(<<Byte.a>>)

\* C6: a finished call during which no source changed returns what the
\* sources as they are now determine, whatever earlier calls returned; and
\* it returns the same Result as the latest call before it when no source
\* changed since that call began.
C6_FreshAndIdempotent ==
    \A t \in Threads :
        (pc[t] = "done" /\ ~dirty[t]) =>
            /\ result[t] = get_machine_id
            /\ last # NoResult => result[t] = last

\* C6 happens: a call returned an id, and with the sources unchanged the next
\* call has the same id; another call, overtaken by a change of the sources,
\* still holds a different id read before the change
C6_Witness ==
    \E t, u \in Threads :
        /\ pc[t] = "done" /\ ~dirty[t]
        /\ last.ok /\ result[t] = last
        /\ pc[u] = "done" /\ dirty[u]
        /\ result[u].ok /\ result[u] # result[t]

\* a step of the library: some call moves on
LibraryStep == pc' # pc

\* C8: when calls interleave and no source changes under them, each returns
\* what it would return alone; and a step of a call changes no source, and
\* nothing of any other call.
C8_ConcurrentCallsIndependent ==
    /\ [](\A t, u \in Threads :
            (t # u /\ pc[t] = "done" /\ ~dirty[t] /\ pc[u] \notin {"idle"} /\ ~dirty[u])
                => result[t] = get_machine_id)
    /\ [][LibraryStep =>
            /\ UNCHANGED env
            /\ \A t \in Threads :
                 pc'[t] = pc[t] =>
                    /\ result'[t] = result[t]
                    /\ content'[t] = content[t]
                    /\ flag'[t] = flag[t]
                    /\ attempts'[t] = attempts[t]]_vars

\* C8 happens: two calls ran interleaved through both sources and both have
\* the id of the second source
C8_Witness ==
    /\ pc[1] = "done" /\ pc[2] = "done"
    /\ ~dirty[1] /\ ~dirty[2]
    /\ Len(attempts[1]) = 2 /\ Len(attempts[2]) = 2
    /\ result[1].ok /\ result[1] = result[2]

=============================================================================
